---- MODULE Spec2Model ----
(***************************************************************************)
(* State machine of the image lazy-loading helper.                         *)
(*                                                                         *)
(*   ImageLoader        src/unnamed/part_000, lines 577-1228               *)
(*   ImageElementShell  src/docs/image-element-shell.js.html               *)
(*                                                                         *)
(* The browser is single threaded: one action of this module is one task   *)
(* of the event loop (an image load/error event, a timer, an animation     *)
(* frame, an animationend event, or a call made by the page) together with *)
(* the promise reactions it triggers, which run as microtasks before the   *)
(* next task.                                                              *)
(*                                                                         *)
(* EventQueues.emit (an external package) calls the handlers registered   *)
(* with on() and then settles; the CSS animation of the node runs from the *)
(* moment <name>-enter-active is applied until animationend, and is        *)
(* dropped when <name>-enter replaces the class.                           *)
(*                                                                         *)
(* JavaScript flags that start out `undefined` are kept three-valued:      *)
(* "undefined", "true", "false".                                           *)
(***************************************************************************)
EXTENDS Naturals, Sequences, FiniteSets, TLC

\* ----------------------------------------------------------------- bounds
\* number of shell.load calls made by the page
MaxLoads == 2
\* number of image error events the network produces
MaxFails == 3
\* number of load calls the page makes on its own loaders
MaxCalls == 4
\* number of load and fetch calls the page makes on the loader it fetches with
MaxFetchCalls == 2
\* calls of load on the earlier variant of the shell, per behaviour
MaxOldLoads == 1

\* -------------------------------------------------------------- constants
\* the built-in transparent image (a data: URI in the source)
TRANSPARENT_PLACEHOLDER_IMAGE == "T"

\* sources the page asks the shell to load
ActualSrcs == {"A", "B"}

\* the class attribute of the node before the shell touches it
OriginClassName == <<"pic">>

\* the children of the node's parent before the shell touches the document:
\* text nodes t1 and t2, the node itself (el) and a following element e1
OriginChildren == <<"t1", "el", "t2", "e1">>

\* the option sets a shell is constructed with
OptionSpace ==
    [ nodeName           : {"IMG", "DIV"},
      originSrc          : {"", "O"},
      placeholder        : {"P", "A"},
      loadingPlaceholder : {"", "L"},
      animationClassName : {"", "fade"},
      animate            : BOOLEAN,
      force              : BOOLEAN ]

VARIABLES
    options,          \* ImageElementShell.$options (never written after construction)
    shell,            \* the private fields of the ImageElementShell
    el,               \* the DOM node the shell is bound to
    ld,               \* the fields of every ImageLoader instance
    inflight,         \* browser Image objects whose load/error event is still to come
    xhrs,             \* XMLHttpRequests whose load/error event is still to come
    loadedImageList,  \* the module-level list of sources loaded successfully
    rafQueue,         \* callbacks passed to requestAnimationFrame, in request order
    hist,             \* observation only: counters and logs the properties read
    probe             \* one call of a private string function: input and result

vars ==
    <<options, shell, el, ld, inflight, xhrs, loadedImageList, rafQueue, hist, probe>>

\* the ImageLoader instances: the one the shell owns, and two the page uses
\* directly
PageLoaders == {"x", "y"}

Loaders == {"shell"} \cup PageLoaders

\* sources the page asks its own loaders to load
LoaderSrcs == {"A", "B"}

\* ------------------------------------------------------------- JavaScript
\* a && b on three-valued flags
JsAnd(a, b) == IF a = "true" THEN b ELSE a

JsBool(b) == IF b THEN "true" ELSE "false"

\* validation.isEmpty on strings
isEmpty(s) == s = ""

\* ---------------------------------------------------------------- strings
\* A string whose characters matter is a sequence of one-character strings.
LowerLetters ==
    << "a", "b", "c", "d", "e", "f", "g", "h", "i", "j", "k", "l", "m",
       "n", "o", "p", "q", "r", "s", "t", "u", "v", "w", "x", "y", "z" >>

UpperLetters ==
    << "A", "B", "C", "D", "E", "F", "G", "H", "I", "J", "K", "L", "M",
       "N", "O", "P", "Q", "R", "S", "T", "U", "V", "W", "X", "Y", "Z" >>

Digits == {"0", "1", "2", "3", "4", "5", "6", "7", "8", "9"}

IsUpper(c) == \E i \in DOMAIN UpperLetters : UpperLetters[i] = c

\* the character class [a-zA-Z\d]
IsAlnum(c) ==
    \/ c \in Digits
    \/ IsUpper(c)
    \/ \E i \in DOMAIN LowerLetters : LowerLetters[i] = c

toLowerChar(c) ==
    IF IsUpper(c)
    THEN LowerLetters[CHOOSE i \in DOMAIN UpperLetters : UpperLetters[i] = c]
    ELSE c

toLocaleLowerCase(str) ==
    IF str = <<>> THEN <<>> ELSE [i \in 1..Len(str) |-> toLowerChar(str[i])]

\* the literal pat occurs in str at position i
OccursAt(str, i, pat) ==
    /\ i >= 1
    /\ i + Len(pat) - 1 <= Len(str)
    /\ SubSeq(str, i, i + Len(pat) - 1) = pat

Least(S) == CHOOSE i \in S : \A j \in S : i <= j

Greatest(S) == CHOOSE i \in S : \A j \in S : i >= j

\* the literals of BASE64_REG = /data:(.*);base64,/ and of /image\/(.*)/
DataColon == <<"d", "a", "t", "a", ":">>

Base64Comma == <<";", "b", "a", "s", "e", "6", "4", ",">>

ImageSlash == <<"i", "m", "a", "g", "e", "/">>

\* str.match(BASE64_REG): the leftmost "data:" that some ";base64," follows,
\* and, (.*) being greedy, the last ";base64," after it
MatchBase64(str) ==
    LET ends(i) == {j \in (i + Len(DataColon))..Len(str) : OccursAt(str, j, Base64Comma)}
        starts  == {i \in 1..Len(str) : OccursAt(str, i, DataColon) /\ ends(i) # {}}
    IN IF starts = {}
       THEN [matched |-> FALSE, group |-> <<>>]
       ELSE LET i == Least(starts)
            IN [matched |-> TRUE,
                group |-> SubSeq(str, i + Len(DataColon), Greatest(ends(i)) - 1)]

\* a replace that never finds "image/"
ReplaceImageNever(str) == str

\* str.replace(/image\/(.*)/, '$1'): the first "image/" is dropped
ReplaceImage(str) ==
    LET at == {k \in 1..Len(str) : OccursAt(str, k, ImageSlash)}
    IN IF at = {} THEN str
       ELSE SubSeq(str, 1, Least(at) - 1)
                \o SubSeq(str, Least(at) + Len(ImageSlash), Len(str))

\* a replace that takes the run after the first dot instead of the last one
ReplaceExtFirstDot(str) ==
    LET dots == {i \in 1..(Len(str) - 1) : str[i] = "." /\ IsAlnum(str[i + 1])}
    IN IF dots = {} THEN str
       ELSE LET d   == Least(dots)
                run == {j \in (d + 1)..Len(str) : \A k \in (d + 1)..j : IsAlnum(str[k])}
            IN SubSeq(str, d + 1, Greatest(run))

\* str.replace(/.*\.([a-zA-Z\d]+).*/, '$1') on a string without line breaks:
\* the greedy .* backs up to the last dot a letter or digit follows, the group
\* is the run of letters and digits after it, and the match is the whole string
ReplaceExt(str) ==
    LET dots == {i \in 1..(Len(str) - 1) : str[i] = "." /\ IsAlnum(str[i + 1])}
    IN IF dots = {} THEN str
       ELSE LET d   == Greatest(dots)
                run == {j \in (d + 1)..Len(str) : \A k \in (d + 1)..j : IsAlnum(str[k])}
            IN SubSeq(str, d + 1, Greatest(run))

getExtension(imageSrc) ==
    LET matched == MatchBase64(imageSrc)
    IN IF matched.matched
       THEN toLocaleLowerCase(ReplaceImage(matched.group))
       ELSE toLocaleLowerCase(ReplaceExt(imageSrc))

\* ------------------------------------------------------------ the "world"
\* every handler is a function from the mutable state to the mutable state
World ==
    [ shell |-> shell, el |-> el, ld |-> ld, inflight |-> inflight, xhr |-> xhrs,
      list |-> loadedImageList, raf |-> rafQueue, hist |-> hist ]

Commit(w) ==
    \E v \in {w} :
        /\ shell' = v.shell
        /\ el' = v.el
        /\ ld' = v.ld
        /\ inflight' = v.inflight
        /\ xhrs' = v.xhr
        /\ loadedImageList' = v.list
        /\ rafQueue' = v.raf
        /\ hist' = v.hist
        /\ UNCHANGED <<options, probe>>

\* ------------------------------------------------------------ ImageLoader
isSameResource(self, imageSrc) == imageSrc = self.currentSrc

\* a request record that stands for "no image event yet"
NoRequest ==
    [id |-> 0, ld |-> "shell", src |-> "", by |-> "page", again |-> FALSE, entry |-> 0]

\* load and fetch calls entered so far, on any loader
Entries(h) == h.images + h.fetches

NewLoader ==
    [ currentSrc |-> "undefined", status |-> "undefined", loaded |-> "undefined",
      blob |-> "undefined", image |-> 0, imageState |-> "none" ]

\* ImageLoader.load that keeps currentSrc while an earlier image is pending
ImageLoaderLoadFirstWins(w, l, imageSrc, by) ==
    LET self == w.ld[l]
        id   == w.hist.images + 1
        busy == \E q \in w.inflight : q.ld = l
        self1 == [self EXCEPT
                    !.blob = IF isSameResource(self, imageSrc) THEN self.blob ELSE "null",
                    !.currentSrc = IF busy THEN @ ELSE imageSrc,
                    !.image = id,
                    !.imageState = "pending"]
    IN [w EXCEPT
          !.ld[l] = self1,
          !.inflight = @ \cup {[id |-> id, ld |-> l, src |-> imageSrc, by |-> by,
                                  again |-> isSameResource(self, imageSrc)
                                            /\ w.hist.latestOk[l],
                                  entry |-> Entries(w.hist) + 1]},
          !.hist.images = id,
          !.hist.latestOk[l] = FALSE,
          !.hist.lastCall[l] = imageSrc,
          !.hist.fallbacks = IF by = "failHandler" THEN Append(@, imageSrc) ELSE @]

\* ImageLoader.load that clears the blob on every call
ImageLoaderLoadClearsBlob(w, l, imageSrc, by) ==
    LET self == w.ld[l]
        id   == w.hist.images + 1
        self1 == [self EXCEPT
                    !.blob = "null",
                    !.currentSrc = imageSrc,
                    !.image = id,
                    !.imageState = "pending"]
    IN [w EXCEPT
          !.ld[l] = self1,
          !.inflight = @ \cup {[id |-> id, ld |-> l, src |-> imageSrc, by |-> by,
                                  again |-> isSameResource(self, imageSrc)
                                            /\ w.hist.latestOk[l],
                                  entry |-> Entries(w.hist) + 1]},
          !.hist.images = id,
          !.hist.latestOk[l] = FALSE,
          !.hist.lastCall[l] = imageSrc,
          !.hist.fallbacks = IF by = "failHandler" THEN Append(@, imageSrc) ELSE @]

\* ImageLoader.load: the synchronous part (the promise executor).  `by` names
\* the caller: "shell.load" chains its reactions on the returned promise,
\* "failHandler" and "page" do not.
ImageLoaderLoad(w, l, imageSrc, by) ==
    LET self == w.ld[l]
        id   == w.hist.images + 1
        self1 == [self EXCEPT
                    !.blob = IF isSameResource(self, imageSrc) THEN self.blob ELSE "null",
                    !.currentSrc = imageSrc,
                    !.image = id,
                    !.imageState = "pending"]
    IN [w EXCEPT
          !.ld[l] = self1,
          !.inflight = @ \cup {[id |-> id, ld |-> l, src |-> imageSrc, by |-> by,
                                  again |-> isSameResource(self, imageSrc)
                                            /\ w.hist.latestOk[l],
                                  entry |-> Entries(w.hist) + 1]},
          !.hist.images = id,
          !.hist.latestOk[l] = FALSE,
          !.hist.lastCall[l] = imageSrc,
          !.hist.fallbacks = IF by = "failHandler" THEN Append(@, imageSrc) ELSE @]

\* a load listener that forgets to record the source
LoadListenerNoPush(w, l) ==
    LET self == w.ld[l]
        seen == \E i \in 1..Len(w.list) : w.list[i] = self.currentSrc
    IN [w EXCEPT
          !.ld[l].status = "success",
          !.ld[l].loaded = JsBool(seen)]

\* a load listener that reports every source as not seen before
LoadListenerAlwaysNew(w, l) ==
    LET self == w.ld[l]
        seen == \E i \in 1..Len(w.list) : w.list[i] = self.currentSrc
    IN [w EXCEPT
          !.ld[l].status = "success",
          !.ld[l].loaded = "false",
          !.list = IF seen THEN @ ELSE Append(@, self.currentSrc)]

\* a load listener that records the source on every success
LoadListenerAlwaysPush(w, l) ==
    LET self == w.ld[l]
        seen == \E i \in 1..Len(w.list) : w.list[i] = self.currentSrc
    IN [w EXCEPT
          !.ld[l].status = "success",
          !.ld[l].loaded = JsBool(seen),
          !.list = Append(@, self.currentSrc)]

\* the 'load' listener of the Image, up to the emit
LoadListener(w, l) ==
    LET self == w.ld[l]
        seen == \E i \in 1..Len(w.list) : w.list[i] = self.currentSrc
    IN [w EXCEPT
          !.ld[l].status = "success",
          !.ld[l].loaded = JsBool(seen),
          !.list = IF seen THEN @ ELSE Append(@, self.currentSrc)]

\* the 'error' listener of the Image, up to the emit
ErrorListener(w, l) == [w EXCEPT !.ld[l].status = "fail"]

\* the browser settles an Image before it fires its event; the loader sees the
\* new state only while $image still refers to that Image
ImageSettles(w, r, state) ==
    IF w.ld[r.ld].image = r.id THEN [w EXCEPT !.ld[r.ld].imageState = state] ELSE w

\* ---- fetch and base64
\* the text of the sources whose characters the loader looks at
ImagePng == <<"i", "m", "a", "g", "e", "/", "p", "n", "g">>

SrcText(src) ==
    CASE src = "D" -> DataColon \o ImagePng \o Base64Comma \o <<"Q", "Q", "=", "=">>
      [] src = "Dx" -> DataColon \o ImagePng \o Base64Comma
                          \o <<"Q", "Q", "Q", "Q", "Q">>
      [] src = TRANSPARENT_PLACEHOLDER_IMAGE
                    -> DataColon \o ImagePng \o Base64Comma \o <<"i", "V", "B", "O">>
      [] src = "B" -> <<"b", ".", "J", "P", "G">>
      [] OTHER -> <<"a", ".", "p", "n", "g">>

\* atob(data) throws: a character outside the base64 alphabet, or a length
\* that is 1 modulo 4 once the padding is dropped
atobThrows(data) ==
    LET n    == Len(data)
        pad  == IF n % 4 = 0 /\ n >= 2 /\ data[n] = "=" /\ data[n - 1] = "=" THEN 2
                ELSE IF n % 4 = 0 /\ n >= 1 /\ data[n] = "=" THEN 1
                ELSE 0
        body == SubSeq(data, 1, n - pad)
    IN \/ Len(body) % 4 = 1
       \/ \E i \in DOMAIN body : ~(IsAlnum(body[i]) \/ body[i] \in {"+", "/"})

\* dataURLToBlob: split(','), atob(arr[1]), arr[0].match(/:(.*?);/)[1]
dataURLToBlob(dataURL) ==
    LET commas == {i \in 1..Len(dataURL) : dataURL[i] = ","}
        c1     == IF commas = {} THEN Len(dataURL) + 1 ELSE Least(commas)
        later  == {i \in commas : i > c1}
        c2     == IF later = {} THEN Len(dataURL) + 1 ELSE Least(later)
        head   == SubSeq(dataURL, 1, c1 - 1)
        colons == {i \in 1..Len(head) :
                      head[i] = ":" /\ \E j \in (i + 1)..Len(head) : head[j] = ";"}
    IN IF commas = {} \/ colons = {} \/ atobThrows(SubSeq(dataURL, c1 + 1, c2 - 1))
       THEN [threw |-> TRUE, type |-> <<>>]
       ELSE LET i == Least(colons)
                j == Least({k \in (i + 1)..Len(head) : head[k] = ";"})
            IN [threw |-> FALSE, type |-> SubSeq(head, i + 1, j - 1)]

getMimeType(ext) ==
    CASE ext = <<"j", "p", "g">> -> "image/jpeg"
      [] ext = <<"j", "e", "p", "g">> -> "image/jpeg"
      [] ext = <<"p", "n", "g">> -> "image/png"
      [] ext = <<"w", "e", "b", "p">> -> "image/webp"
      [] OTHER -> "undefined"

\* what a base64() call has settled with; drew tells whether the image was
\* drawn on a canvas
NoOutcome == [settled |-> "none", value |-> "", drew |-> FALSE]

\* canvasToDataURL.  drawImage throws on a missing or broken image and draws
\* nothing for an image that is not decoded yet; the canvas then has the
\* natural size 0 x 0 and toDataURL gives "data:,".
canvasToDataURL(self) ==
    CASE self.image = 0 \/ self.imageState = "broken"
            -> [settled |-> "rejected", value |-> "drawImage", drew |-> FALSE]
      [] self.imageState = "pending"
            -> [settled |-> "resolved", value |-> "data:,", drew |-> FALSE]
      [] OTHER
            -> [settled |-> "resolved",
                value |-> "canvas:" \o self.currentSrc \o ":"
                              \o getMimeType(getExtension(SrcText(self.currentSrc))),
                drew |-> TRUE]

HasBlob(self) == self.blob \notin {"undefined", "null"}

\* base64 that goes through the canvas for every source
base64ViaCanvas(self) ==
    IF (~HasBlob(self) /\ self.image = 0) \/ self.currentSrc = "undefined"
    THEN [settled |-> "rejected", value |-> "image resource does not load",
          drew |-> FALSE]
    ELSE canvasToDataURL(self)

\* ImageLoader.base64().  The first reject does not return, but a promise keeps
\* its first settlement; match on an undefined currentSrc throws.
base64(self) ==
    IF (~HasBlob(self) /\ self.image = 0) \/ self.currentSrc = "undefined"
    THEN [settled |-> "rejected", value |-> "image resource does not load",
          drew |-> FALSE]
    ELSE IF MatchBase64(SrcText(self.currentSrc)).matched
         THEN [settled |-> "resolved", value |-> self.currentSrc, drew |-> FALSE]
         ELSE canvasToDataURL(self)

\* the promise of a fetch call settles
FetchSettles(w, how) ==
    IF how = "resolved"
    THEN [w EXCEPT !.hist.settled.resolved = @ + 1]
    ELSE [w EXCEPT !.hist.settled.rejected = @ + 1]

\* the load(imageSrc) that fetch delegates to; entry is the number of calls
\* entered when the fetch call was made
DelegatedLoad(w, l, imageSrc, entry) ==
    LET w1 == ImageLoaderLoad(w, l, imageSrc, "fetch")
    IN IF Entries(w.hist) = entry
       THEN [w1 EXCEPT !.hist.direct = @ \cup {w1.hist.images}]
       ELSE w1

\* ImageLoader.fetch: the synchronous part
ImageLoaderFetch(w, l, imageSrc) ==
    LET self == w.ld[l]
        same == isSameResource(self, imageSrc)
        w1 == [w EXCEPT !.ld[l].image = IF same THEN @ ELSE 0,
                        !.ld[l].imageState = IF same THEN @ ELSE "none",
                        !.ld[l].currentSrc = imageSrc,
                        !.hist.lastCall[l] = imageSrc,
                        !.hist.fetches = @ + 1]
    IN IF MatchBase64(SrcText(imageSrc)).matched
       THEN IF dataURLToBlob(SrcText(imageSrc)).threw
            THEN FetchSettles(w1, "rejected")
            ELSE DelegatedLoad([w1 EXCEPT !.ld[l].blob = "blob:" \o imageSrc],
                               l, imageSrc, Entries(w1.hist))
       ELSE [w1 EXCEPT !.xhr = @ \cup {[id |-> w1.hist.fetches, ld |-> l,
                                         src |-> imageSrc,
                                         entry |-> Entries(w1.hist)]}]

\* the reaction to a failed XHR that the source has commented out: it reports
\* the failure on the loader as well
AjaxCatchEmits(w, l) ==
    FetchSettles([w EXCEPT !.ld[l].status = "fail", !.hist.emits = @ + 1], "rejected")

\* the reactions fetch chains on _actions.ajax
AjaxCatch(w, l) == FetchSettles(w, "rejected")

AjaxThen(w, x) ==
    DelegatedLoad([w EXCEPT !.ld[x.ld].blob = "blob:" \o x.src], x.ld, x.src, x.entry)

\* ------------------------------------------------------ ImageElementShell
\* setImageSrc that writes both the attribute and the background
setImageSrcBoth(w, imageSrc) ==
    [w EXCEPT !.el.src = imageSrc, !.el.backgroundImage = imageSrc]

setImageSrc(w, imageSrc) ==
    IF w.el.nodeName = "IMG"
    THEN [w EXCEPT !.el.src = imageSrc]
    ELSE [w EXCEPT !.el.backgroundImage = imageSrc]

\* setClassName that adds the class to whatever the attribute holds
setClassNameAppends(w, classname) ==
    [w EXCEPT !.el.class = @ \o <<classname>>]

setClassName(w, classname) ==
    [w EXCEPT !.el.class = w.shell.originClassNameList \o <<classname>>]

\* ---- the DOM calls used on the child list of the node's parent
\* element nodes, as opposed to text nodes: the node, its sibling element, the
\* marker span and the wrapper container
IsElement(n) == n \in {"el", "e1", "span", "container"}

Contains(children, n) == \E i \in DOMAIN children : children[i] = n

IndexOf(children, n) == CHOOSE i \in DOMAIN children : children[i] = n

removeChild(children, n) == SelectSeq(children, LAMBDA c : c # n)

appendChild(children, n) == Append(removeChild(children, n), n)

\* parent.insertBefore(n, ref); a node already in the list is moved
insertBefore(children, n, ref) ==
    LET rest == removeChild(children, n)
    IN IF ~Contains(rest, ref) THEN rest
       ELSE LET i == IndexOf(rest, ref)
            IN SubSeq(rest, 1, i - 1) \o <<n>> \o SubSeq(rest, i, Len(rest))

\* target.nextElementSibling: text nodes are skipped
nextElementSibling(children, target) ==
    IF ~Contains(children, target) THEN "null"
    ELSE LET later == {i \in DOMAIN children :
                          i > IndexOf(children, target) /\ IsElement(children[i])}
         IN IF later = {} THEN "null"
            ELSE children[CHOOSE i \in later : \A j \in later : i <= j]

insertAfter(children, n, targetNode) ==
    LET nextNode == nextElementSibling(children, targetNode)
    IN IF nextNode # "null"
       THEN insertBefore(children, n, nextNode)
       ELSE appendChild(children, n)

createContainerDom(w) ==
    LET marked  == insertBefore(w.el.parentChildren, "span", "el")
        emptied == removeChild(marked, "el")
    IN [w EXCEPT !.shell.placeholderNode = TRUE,
                 !.shell.parentNode = TRUE,
                 !.el.parentChildren = insertAfter(emptied, "container", "span"),
                 !.el.wrapped = @ + 1,
                 !.hist.wrappers = @ + 1]

\* removeContainerDom that tears the wrapper down only once an animation ended
removeContainerDomAfterAnimation(w) ==
    IF ~w.shell.parentNode \/ ~w.shell.placeholderNode \/ w.shell.animationing # "false"
    THEN w
    ELSE LET unwrapped == insertAfter(w.el.parentChildren, "el", "container")
         IN [w EXCEPT !.shell.parentNode = FALSE, !.shell.placeholderNode = FALSE,
                      !.el.parentChildren =
                          removeChild(removeChild(unwrapped, "container"), "span"),
                      !.el.wrapped = @ - 1]

removeContainerDom(w) ==
    IF ~w.shell.parentNode \/ ~w.shell.placeholderNode \/ w.shell.animationing = "true"
    THEN w
    ELSE LET unwrapped == insertAfter(w.el.parentChildren, "el", "container")
         IN [w EXCEPT !.shell.parentNode = FALSE, !.shell.placeholderNode = FALSE,
                      !.el.parentChildren =
                          removeChild(removeChild(unwrapped, "container"), "span"),
                      !.el.wrapped = @ - 1]

clearTimeout(w) == [w EXCEPT !.shell.loadingTimeouter = FALSE]

\* the listener setAnimationEndHandler binds to the node
animationEndHandler(w) ==
    LET w1 == [w EXCEPT !.shell.animationing = "false", !.shell.loaded = "true"]
        w2 == setClassName(w1, options.animationClassName \o "-enter-end")
        w3 == [w2 EXCEPT !.el.animationEndBound = FALSE]
    IN removeContainerDom(w3)

\* The source calls removeAnimationEnd(el, animationEndHandler) above the const
\* declaration of animationEndHandler; in the transpiled build the name is a
\* hoisted var that is still undefined there, so the call removes nothing.
setAnimationEndHandler(w, o) ==
    IF ~o.animate \/ isEmpty(o.animationClassName)
    THEN w
    ELSE [w EXCEPT !.el.animationEndBound = TRUE]

\* successHandler with the clearTimeout call left out
successHandlerKeepsTimer(w) ==
    LET w1 == removeContainerDom(w)
        w2 == setImageSrc(w1, w1.shell.currentSrc)
    IN w2

\* successHandler that paints the node only with the source the page asked for
successHandlerActualOnly(w) ==
    LET w1 == removeContainerDom(clearTimeout(w))
    IN IF w1.shell.currentSrc = w1.shell.actualSrc
       THEN setImageSrc(w1, w1.shell.currentSrc)
       ELSE w1

successHandler(w) ==
    LET w1 == removeContainerDom(clearTimeout(w))
        w2 == setImageSrc(w1, w1.shell.currentSrc)
    IN w2

\* failHandler that gives up instead of loading a fallback
failHandlerNoRetry(w) ==
    LET w1 == removeContainerDom(clearTimeout(w))
        fallback == IF w1.shell.currentSrc = options.placeholder
                    THEN TRANSPARENT_PLACEHOLDER_IMAGE
                    ELSE options.placeholder
    IN [w1 EXCEPT !.shell.currentSrc = fallback]

\* failHandler that makes the fallback the shell's actual source
failHandlerRetargets(w) ==
    LET w1 == removeContainerDom(clearTimeout(w))
        fallback == IF w1.shell.currentSrc = options.placeholder
                    THEN TRANSPARENT_PLACEHOLDER_IMAGE
                    ELSE options.placeholder
        w2 == [w1 EXCEPT !.shell.currentSrc = fallback,
                         !.shell.actualSrc = fallback]
    IN ImageLoaderLoad(w2, "shell", fallback, "failHandler")

\* failHandler that cancels the timer but leaves the wrapper in place
failHandlerKeepsWrapper(w) ==
    LET w1 == clearTimeout(w)
        fallback == IF w1.shell.currentSrc = options.placeholder
                    THEN TRANSPARENT_PLACEHOLDER_IMAGE
                    ELSE options.placeholder
        w2 == [w1 EXCEPT !.shell.currentSrc = fallback]
    IN ImageLoaderLoad(w2, "shell", fallback, "failHandler")

failHandler(w) ==
    LET w1 == removeContainerDom(clearTimeout(w))
        fallback == IF w1.shell.currentSrc = options.placeholder
                    THEN TRANSPARENT_PLACEHOLDER_IMAGE
                    ELSE options.placeholder
        w2 == [w1 EXCEPT !.shell.currentSrc = fallback]
    IN ImageLoaderLoad(w2, "shell", fallback, "failHandler")

requestAnimationFrame(w, cb) == [w EXCEPT !.raf = Append(@, cb)]

\* startAnimationing that ignores the canAnimate flag
startAnimationingAlways(w, id) ==
    IF w.shell.currentSrc # w.shell.actualSrc
    THEN w
    ELSE IF ~options.animate \/ isEmpty(options.animationClassName)
         THEN w
         ELSE requestAnimationFrame(w, [cb |-> "enter", id |-> id])

\* startAnimationing that does not look at the animation options
startAnimationingUnconfigured(w, id) ==
    IF w.shell.currentSrc # w.shell.actualSrc
    THEN w
    ELSE IF w.shell.canAnimate = "true"
         THEN w
         ELSE requestAnimationFrame(w, [cb |-> "enter", id |-> id])

startAnimationing(w, id) ==
    IF w.shell.currentSrc # w.shell.actualSrc
    THEN w
    ELSE IF w.shell.canAnimate = "true" \/ ~options.animate
            \/ isEmpty(options.animationClassName)
         THEN w
         ELSE requestAnimationFrame(w, [cb |-> "enter", id |-> id])

\* the two nested animation-frame callbacks of startAnimationing
\* first callback that applies both phase classes in the same frame
EnterFrameBoth(w, id) ==
    LET w1 == [w EXCEPT !.shell.animationing = "true"]
        w2 == setClassName(w1, options.animationClassName \o "-enter")
        w3 == [w2 EXCEPT !.hist.classLog = Append(@, [cls |-> "enter", id |-> id,
                                                      frame |-> w.hist.frame])]
        w4 == setClassName(w3, options.animationClassName \o "-enter-active")
    IN [w4 EXCEPT !.el.animationRunning = TRUE,
                  !.hist.classLog = Append(@, [cls |-> "active", id |-> id,
                                               frame |-> w.hist.frame])]

EnterFrame(w, id) ==
    LET w1 == [w EXCEPT !.shell.animationing = "true"]
        w2 == setClassName(w1, options.animationClassName \o "-enter")
        w3 == [w2 EXCEPT !.el.animationRunning = FALSE,
                         !.hist.classLog = Append(@, [cls |-> "enter", id |-> id,
                                                      frame |-> w.hist.frame])]
    IN requestAnimationFrame(w3, [cb |-> "active", id |-> id])

ActiveFrame(w, id) ==
    LET w1 == setClassName(w, options.animationClassName \o "-enter-active")
    IN [w1 EXCEPT !.el.animationRunning = TRUE,
                  !.hist.classLog = Append(@, [cls |-> "active", id |-> id,
                                               frame |-> w.hist.frame])]

RunCallback(w, c) ==
    IF c.cb = "enter" THEN EnterFrame(w, c.id) ELSE ActiveFrame(w, c.id)

RECURSIVE RunCallbacks(_, _)
RunCallbacks(w, cbs) ==
    IF cbs = <<>> THEN w
    ELSE RunCallbacks(RunCallback(w, Head(cbs)), Tail(cbs))

\* load reactions that trigger the animation before canAnimate is computed
LoadThenLate(w, id) ==
    LET w1 == startAnimationing(w, id)
    IN [w1 EXCEPT
          !.shell.canAnimate =
              JsAnd(JsAnd(w.shell.loaded, w.ld["shell"].loaded),
                    JsBool(~options.force)),
          !.hist.resolved = @ + 1]

\* the reactions ImageElementShell.load chains on the loader's promise
LoadThen(w, id) ==
    LET w1 == [w EXCEPT
                 !.shell.canAnimate =
                     JsAnd(JsAnd(w.shell.loaded, w.ld["shell"].loaded),
                           JsBool(~options.force)),
                 !.hist.resolved = @ + 1]
    IN startAnimationing(w1, id)

\* rejection reaction that leaves the shell's loaded flag alone
LoadCatchKeepsLoaded(w) ==
    [w EXCEPT !.shell.canAnimate = "false", !.hist.rejected = @ + 1]

LoadCatch(w) ==
    [w EXCEPT !.shell.canAnimate = "false", !.shell.loaded = "false",
              !.hist.rejected = @ + 1]

\* constructor that arms the wrapper timer whatever the options are
constructorAlwaysTimer(o) ==
    LET w0 == [ shell |-> [ currentSrc |-> "undefined", actualSrc |-> "undefined",
                            loaded |-> "undefined", canAnimate |-> "undefined",
                            animationing |-> "undefined",
                            parentNode |-> FALSE, placeholderNode |-> FALSE,
                            loadingTimeouter |-> FALSE,
                            originClassNameList |-> <<>> ],
                el |-> [ nodeName |-> o.nodeName, src |-> o.originSrc,
                         backgroundImage |-> "", class |-> OriginClassName,
                         animationEndBound |-> FALSE, animationRunning |-> FALSE,
                         wrapped |-> 0, parentChildren |-> OriginChildren ],
                ld |-> [l \in Loaders |-> NewLoader],
                inflight |-> {},
                xhr |-> {},
                list |-> <<>>,
                raf |-> <<>>,
                hist |-> [ shellLoads |-> 0, images |-> 0, failed |-> <<>>,
                           handled |-> 0, fallbacks |-> <<>>,
                           resolved |-> 0, rejected |-> 0,
                           timerFired |-> FALSE, resolvedFirst |-> FALSE,
                           wrappers |-> 0, frame |-> 0, classLog |-> <<>>,
                           animEnds |-> 0, paintedBy |-> "constructor",
                           calls |-> 0, latestOk |-> [l \in Loaders |-> FALSE],
                           lastCall |-> [l \in Loaders |-> "undefined"],
                           fetches |-> 0, direct |-> {}, emits |-> 0,
                           settled |-> [resolved |-> 0, rejected |-> 0],
                           b64 |-> NoOutcome,
                           okBy |-> [l \in Loaders |-> ""], okSrcs |-> {},
                           loadImage |-> 0, actualOk |-> FALSE,
                           lastReq |-> NoRequest, last |-> "new" ] ]
        w1 == setImageSrc(w0, TRANSPARENT_PLACEHOLDER_IMAGE)
        w2 == [w1 EXCEPT !.shell.originClassNameList = OriginClassName]
        w3 == setAnimationEndHandler(w2, o)
    IN [w3 EXCEPT !.shell.loadingTimeouter = TRUE]

\* new ImageElementShell(options)
constructor(o) ==
    LET w0 == [ shell |-> [ currentSrc |-> "undefined", actualSrc |-> "undefined",
                            loaded |-> "undefined", canAnimate |-> "undefined",
                            animationing |-> "undefined",
                            parentNode |-> FALSE, placeholderNode |-> FALSE,
                            loadingTimeouter |-> FALSE,
                            originClassNameList |-> <<>> ],
                el |-> [ nodeName |-> o.nodeName, src |-> o.originSrc,
                         backgroundImage |-> "", class |-> OriginClassName,
                         animationEndBound |-> FALSE, animationRunning |-> FALSE,
                         wrapped |-> 0, parentChildren |-> OriginChildren ],
                ld |-> [l \in Loaders |-> NewLoader],
                inflight |-> {},
                xhr |-> {},
                list |-> <<>>,
                raf |-> <<>>,
                hist |-> [ shellLoads |-> 0, images |-> 0, failed |-> <<>>,
                           handled |-> 0, fallbacks |-> <<>>,
                           resolved |-> 0, rejected |-> 0,
                           timerFired |-> FALSE, resolvedFirst |-> FALSE,
                           wrappers |-> 0, frame |-> 0, classLog |-> <<>>,
                           animEnds |-> 0, paintedBy |-> "constructor",
                           calls |-> 0, latestOk |-> [l \in Loaders |-> FALSE],
                           lastCall |-> [l \in Loaders |-> "undefined"],
                           fetches |-> 0, direct |-> {}, emits |-> 0,
                           settled |-> [resolved |-> 0, rejected |-> 0],
                           b64 |-> NoOutcome,
                           okBy |-> [l \in Loaders |-> ""], okSrcs |-> {},
                           loadImage |-> 0, actualOk |-> FALSE,
                           lastReq |-> NoRequest, last |-> "new" ] ]
        w1 == setImageSrc(w0, TRANSPARENT_PLACEHOLDER_IMAGE)
        w2 == [w1 EXCEPT !.shell.originClassNameList = OriginClassName]
        w3 == setAnimationEndHandler(w2, o)
    IN IF isEmpty(o.originSrc) /\ ~isEmpty(o.loadingPlaceholder)
       THEN [w3 EXCEPT !.shell.loadingTimeouter = TRUE]
       ELSE w3

\* ---------------------------------------------------------------- actions
\* the probe while no string function is being exercised
NoProbe ==
    [ input |-> [kind |-> "none", head |-> <<>>, ext |-> <<>>, tail |-> <<>>,
                 text |-> <<>>],
      output |-> <<>>, done |-> FALSE ]

\* the state right after new ImageElementShell(o)
Constructed(o) ==
    LET w == constructor(o)
    IN /\ shell = w.shell
       /\ el = w.el
       /\ ld = w.ld
       /\ inflight = w.inflight
       /\ xhrs = w.xhr
       /\ loadedImageList = w.list
       /\ rafQueue = w.raf
       /\ hist = w.hist

Init ==
    /\ options \in OptionSpace
    /\ Constructed(options)
    /\ probe = NoProbe

\* the page calls shell.load(actualSrc)
ShellLoad(actualSrc) ==
    /\ hist.shellLoads < MaxLoads
    /\ LET w1 == [World EXCEPT !.shell.actualSrc = actualSrc,
                               !.shell.currentSrc = actualSrc,
                               !.hist.shellLoads = @ + 1,
                               !.hist.loadImage = hist.images + 1,
                               !.hist.actualOk = FALSE,
                               !.hist.last = "load"]
       IN Commit(ImageLoaderLoad(w1, "shell", actualSrc, "shell.load"))

\* what the properties observe of an image event on a loader
Observed(w, r, kind) ==
    LET w1 == [w EXCEPT !.hist.last = kind, !.hist.lastReq = r,
                        !.hist.emits = @ + 1]
        w2 == IF kind = "fail"
              THEN [w1 EXCEPT !.hist.failed = Append(@, r.src)]
              ELSE [w1 EXCEPT !.hist.latestOk[r.ld] = @ \/ (w.ld[r.ld].image = r.id),
                              !.hist.okBy[r.ld] = r.src,
                              !.hist.okSrcs = @ \cup {r.src},
                              !.hist.actualOk = @ \/ (r.by = "shell.load"
                                                       /\ r.id = w.hist.loadImage)]
    IN IF r.ld # "shell" THEN w2
       ELSE [w2 EXCEPT
               !.hist.handled = @ + 1,
               !.hist.resolvedFirst = @ \/ ~w.hist.timerFired,
               !.hist.paintedBy = IF kind = "fail" THEN @
                                  ELSE IF r.by = "shell.load" THEN "load"
                                  ELSE "fallback"]

\* the browser fires 'load' on an Image: the listener of ImageLoader.load, the
\* handlers the emit calls, then the reactions on the promise
ImageLoad(r) ==
    /\ r \in inflight
    /\ \E w0 \in {ImageSettles([World EXCEPT !.inflight = @ \ {r}], r, "complete")} :
       \E w1 \in {Observed(w0, r, "success")} :
       \E w2 \in {LoadListener(w1, r.ld)} :
       \E w3 \in {IF r.ld = "shell" THEN successHandler(w2) ELSE w2} :
       \E w4 \in {IF r.by = "shell.load" THEN LoadThen(w3, r.id) ELSE w3} :
       \E w5 \in {IF r.by = "fetch" THEN FetchSettles(w4, "resolved") ELSE w4} :
          Commit(w5)

\* the browser fires 'error' on an Image
ImageError(r) ==
    /\ r \in inflight
    /\ Len(hist.failed) < MaxFails
    /\ \E w0 \in {ImageSettles([World EXCEPT !.inflight = @ \ {r}], r, "broken")} :
       \E w1 \in {Observed(w0, r, "fail")} :
       \E w2 \in {ErrorListener(w1, r.ld)} :
       \E w3 \in {IF r.ld = "shell" THEN failHandler(w2) ELSE w2} :
       \E w4 \in {IF r.by = "shell.load" THEN LoadCatch(w3) ELSE w3} :
       \E w5 \in {IF r.by = "fetch" THEN FetchSettles(w4, "rejected") ELSE w4} :
          Commit(w5)

\* a loading-delay timer that stays armed after it fired (an interval)
LoadingInterval ==
    /\ shell.loadingTimeouter
    /\ hist.wrappers < 2
    /\ LET w1 == [World EXCEPT !.hist.timerFired = TRUE,
                               !.hist.last = "timer"]
       IN Commit(createContainerDom(w1))

\* the loading-delay timer armed by the constructor fires
LoadingTimeout ==
    /\ shell.loadingTimeouter
    /\ LET w1 == [World EXCEPT !.shell.loadingTimeouter = FALSE,
                               !.hist.timerFired = TRUE,
                               !.hist.last = "timer"]
       IN Commit(createContainerDom(w1))

\* the browser runs one animation frame: every callback requested so far, in
\* request order; callbacks requested meanwhile wait for the next frame
AnimationFrame ==
    /\ rafQueue # <<>>
    /\ LET w1 == [World EXCEPT !.raf = <<>>, !.hist.frame = @ + 1,
                               !.hist.last = "frame"]
       IN Commit(RunCallbacks(w1, rafQueue))

\* the CSS animation started by the -enter-active class ends
AnimationEnd ==
    /\ el.animationRunning
    /\ LET w1 == [World EXCEPT !.el.animationRunning = FALSE,
                               !.hist.animEnds = @ + 1,
                               !.hist.last = "animationend"]
       IN Commit(IF el.animationEndBound THEN animationEndHandler(w1) ELSE w1)

Next ==
    \/ \E a \in ActualSrcs : ShellLoad(a)
    \/ \E r \in inflight : ImageLoad(r)
    \/ \E r \in inflight : ImageError(r)
    \/ LoadingTimeout
    \/ AnimationFrame
    \/ AnimationEnd

Spec == Init /\ [][Next]_vars

\* ------------------------------------------- the loaders used on their own
\* the options of the one shell of the page, which stays idle here
IdleShellOptions ==
    [ nodeName |-> "IMG", originSrc |-> "O", placeholder |-> "P",
      loadingPlaceholder |-> "", animationClassName |-> "", animate |-> TRUE,
      force |-> FALSE ]

LoaderInit == Init /\ options = IdleShellOptions

\* the page calls loader.load(imageSrc) on one of its loaders
PageLoad(l, imageSrc) ==
    /\ hist.calls < MaxCalls
    /\ LET w1 == [World EXCEPT !.hist.calls = @ + 1, !.hist.last = "load"]
       IN Commit(ImageLoaderLoad(w1, l, imageSrc, "page"))

LoaderNext ==
    \/ \E l \in PageLoaders, a \in LoaderSrcs : PageLoad(l, a)
    \/ \E r \in inflight : ImageLoad(r)
    \/ \E r \in inflight : ImageError(r)

LoaderSpec == LoaderInit /\ [][LoaderNext]_vars

\* --------------------------------------- one loader: load, fetch and base64
FetchLoader == "x"

\* a plain source, another one, a data URI, and a data URI whose payload is
\* not valid base64
FetchSrcs == {"A", "B", "D", "Dx"}

FetchLoad(imageSrc) ==
    /\ hist.calls < MaxFetchCalls
    /\ PageLoad(FetchLoader, imageSrc)

\* the page calls loader.fetch(imageSrc)
PageFetch(imageSrc) ==
    /\ hist.calls < MaxFetchCalls
    /\ LET w1 == [World EXCEPT !.hist.calls = @ + 1, !.hist.last = "fetch"]
       IN Commit(ImageLoaderFetch(w1, FetchLoader, imageSrc))

\* the XHR completes with status 200
XhrLoad(x) ==
    /\ x \in xhrs
    /\ LET w1 == [World EXCEPT !.xhr = @ \ {x}, !.hist.last = "xhr200"]
       IN Commit(AjaxThen(w1, x))

\* the XHR completes with another status, or fails in transport
XhrFail(x, how) ==
    /\ x \in xhrs
    /\ LET w1 == [World EXCEPT !.xhr = @ \ {x}, !.hist.last = how]
       IN Commit(AjaxCatch(w1, x.ld))

\* the page calls loader.base64()
PageBase64 ==
    /\ LET w1 == [World EXCEPT !.hist.last = "base64",
                               !.hist.b64 = base64(ld[FetchLoader])]
       IN Commit(w1)

FetchNext ==
    \/ \E a \in FetchSrcs : FetchLoad(a)
    \/ \E a \in FetchSrcs : PageFetch(a)
    \/ \E x \in xhrs : XhrLoad(x)
    \/ \E x \in xhrs, how \in {"xhrstatus", "xhrerror"} : XhrFail(x, how)
    \/ \E r \in inflight : ImageLoad(r)
    \/ \E r \in inflight : ImageError(r)
    \/ PageBase64

FetchSpec == LoaderInit /\ [][FetchNext]_vars

\* ------------------------------------------- extension sniffing on its own
\* mime types and payloads of the data URIs tried
MimeTypes == { <<"i", "m", "a", "g", "e">>, <<"I", "M", "A", "G", "E">>,
               <<"t", "e", "x", "t">>, <<"v", "i", "d", "e", "o">> }

MimeSubtypes == { <<"p", "n", "g">>, <<"P", "N", "G">>, <<"J", "p", "e", "g">>,
                  <<"s", "v", "g", "+", "x", "m", "l">>, <<"m", "p", "4">> }

Payloads == { <<>>, <<"Q", "Q", "=", "=">>, <<"i", "V", "/", "9", "+", "a">> }

\* paths, extensions and '!' suffixes of the plain sources tried
Paths == { <<"c">>, <<"a", "/", "b", "/", "c">>, <<"a", ".", "b", "/", "c">>,
           <<"h", "t", "t", "p", ":", "/", "/", "x", ".", "c", "n", "/", "i">> }

Extensions == { <<"j", "p", "g">>, <<"J", "P", "G">>, <<"p", "n", "g">>,
                <<"J", "p", "e", "g">>, <<"w", "e", "b", "p">> }

Suffixes == { <<>>,
              <<"!", "b", "o", "t", "h", "/", "1", "0", "0", "x", "1", "0", "0">>,
              <<"!", "/", "f", "w", "/", "3", "0", "0">>,
              <<"!", "/", "s", "c", "a", "l", "e", "/", "0", ".", "5">>,
              <<"!", "v", "1", ".", "2">> }

DataInputs ==
    { [kind |-> "data", head |-> t, ext |-> e, tail |-> b,
       text |-> DataColon \o t \o <<"/">> \o e \o Base64Comma \o b] :
        t \in MimeTypes, e \in MimeSubtypes, b \in Payloads }

PathInputs ==
    { [kind |-> "path", head |-> h, ext |-> e, tail |-> x,
       text |-> h \o <<".">> \o e \o x] :
        h \in Paths, e \in Extensions, x \in Suffixes }

ExtInit ==
    /\ options = IdleShellOptions
    /\ Constructed(options)
    /\ probe \in [input : DataInputs \cup PathInputs, output : {<<>>}, done : {FALSE}]

\* _actions.getExtension(imageSrc) is called on the input
GetExtension ==
    /\ ~probe.done
    /\ probe' = [probe EXCEPT !.output = getExtension(probe.input.text),
                               !.done = TRUE]
    /\ UNCHANGED <<options, shell, el, ld, inflight, xhrs, loadedImageList,
                   rafQueue, hist>>

ExtNext == GetExtension

ExtSpec == ExtInit /\ [][ExtNext]_vars

\* ------------------------------------- one shell.load, every event delivered
\* the page calls shell.load once and never again
SingleLoad(actualSrc) == hist.shellLoads = 0 /\ ShellLoad(actualSrc)

SingleLoadNext ==
    \/ \E a \in ActualSrcs : SingleLoad(a)
    \/ \E r \in inflight : ImageLoad(r)
    \/ \E r \in inflight : ImageError(r)
    \/ LoadingTimeout
    \/ AnimationFrame
    \/ AnimationEnd

\* the browser delivers the load or the error event of a pending Image
Delivery == \E r \in inflight : ImageLoad(r) \/ ImageError(r)

\* Fairness: a pending image event, an armed timer, a requested animation
\* frame and a running CSS animation are browser tasks that do run.
SingleLoadSpec ==
    /\ Init
    /\ [][SingleLoadNext]_vars
    /\ WF_vars(Delivery)
    /\ WF_vars(LoadingTimeout)
    /\ WF_vars(AnimationFrame)
    /\ WF_vars(AnimationEnd)

\* ------------------------------- the earlier variant of ImageElementShell
\* The variant has no _animationing flag and no marker span: _canAnimate is set
\* when the animation-end handler is bound and cleared when an animation ends,
\* and it is what removeContainerDom looks at.
\* insertAfter of the variant: the arguments of insertBefore are swapped, so the
\* reference node is `node`; the call throws when targetNode is not in the
\* document or when `node` is not a child of the parent
insertAfterOld(children, targetNode, node) ==
    IF ~Contains(children, targetNode)
    THEN [threw |-> TRUE, children |-> children]
    ELSE LET nextNode == nextElementSibling(children, targetNode)
         IN IF nextNode # "null"
            THEN IF Contains(children, node)
                 THEN [threw |-> FALSE,
                       children |-> insertBefore(children, nextNode, node)]
                 ELSE [threw |-> TRUE, children |-> children]
            ELSE [threw |-> FALSE, children |-> appendChild(children, node)]

createContainerDomOld(w) ==
    LET w1 == [w EXCEPT !.shell.parentNode = TRUE]
        r  == insertAfterOld(w.el.parentChildren, "el", "container")
    IN IF r.threw THEN w1
       ELSE [w1 EXCEPT !.el.parentChildren = removeChild(r.children, "el"),
                       !.el.wrapped = @ + 1,
                       !.hist.wrappers = @ + 1]

\* the result says whether the call threw, which ends the calling handler
removeContainerDomOld(w) ==
    IF ~w.shell.parentNode \/ w.shell.canAnimate = "true"
    THEN [threw |-> FALSE, w |-> w]
    ELSE LET r == insertAfterOld(w.el.parentChildren, "container", "el")
         IN IF r.threw THEN [threw |-> TRUE, w |-> w]
            ELSE [threw |-> FALSE,
                  w |-> [w EXCEPT !.el.parentChildren = removeChild(r.children, "container"),
                                  !.shell.parentNode = FALSE,
                                  !.el.wrapped = @ - 1]]

animationEndHandlerOld(w) ==
    LET w1 == [w EXCEPT !.shell.canAnimate = "false"]
        w2 == setClassName(w1, options.animationClassName \o "-enter-end")
        w3 == [w2 EXCEPT !.el.animationEndBound = FALSE]
    IN removeContainerDomOld(w3).w

setAnimationEndHandlerOld(w, o) ==
    IF ~o.animate \/ isEmpty(o.animationClassName)
    THEN w
    ELSE [w EXCEPT !.shell.canAnimate = "true", !.el.animationEndBound = TRUE]

successHandlerOld(w, id) ==
    LET r == removeContainerDomOld(clearTimeout(w))
        w2 == setImageSrc(r.w, r.w.shell.currentSrc)
    IN IF r.threw THEN r.w
       ELSE IF w2.shell.currentSrc # w2.shell.actualSrc THEN w2
       ELSE IF w2.shell.loaded = "true" \/ ~options.animate
               \/ isEmpty(options.animationClassName)
            THEN w2
            ELSE requestAnimationFrame(w2, [cb |-> "enter", id |-> id])

failHandlerOld(w) ==
    LET r == removeContainerDomOld(clearTimeout(w))
        fallback == IF r.w.shell.currentSrc = options.placeholder
                    THEN TRANSPARENT_PLACEHOLDER_IMAGE
                    ELSE options.placeholder
        w2 == [r.w EXCEPT !.shell.currentSrc = fallback]
    IN IF r.threw THEN r.w
       ELSE ImageLoaderLoad(w2, "shell", fallback, "failHandler")

\* the two nested animation-frame callbacks of successHandler
EnterFrameOld(w, id) ==
    LET w1 == setClassName(w, options.animationClassName \o "-enter")
        w2 == [w1 EXCEPT !.el.animationRunning = FALSE,
                         !.hist.classLog = Append(@, [cls |-> "enter", id |-> id,
                                                      frame |-> w.hist.frame])]
    IN requestAnimationFrame(w2, [cb |-> "active", id |-> id])

RunCallbackOld(w, c) ==
    IF c.cb = "enter" THEN EnterFrameOld(w, c.id) ELSE ActiveFrame(w, c.id)

RECURSIVE RunCallbacksOld(_, _)
RunCallbacksOld(w, cbs) ==
    IF cbs = <<>> THEN w
    ELSE RunCallbacksOld(RunCallbackOld(w, Head(cbs)), Tail(cbs))

\* new ImageElementShell(options) of the variant
constructorOld(o) ==
    LET w0 == constructor(o)
        w1 == [w0 EXCEPT !.el.animationEndBound = FALSE]
    IN setAnimationEndHandlerOld(w1, o)

\* the parents the node is found in: as the last element child, or followed by
\* another element
OldChildren == { <<"t1", "el", "t2">>, OriginChildren }

OldInit ==
    /\ options \in OptionSpace
    /\ \E c \in OldChildren :
         LET w == constructorOld(options)
         IN /\ shell = w.shell
            /\ el = [w.el EXCEPT !.parentChildren = c]
            /\ ld = w.ld
            /\ inflight = w.inflight
            /\ xhrs = w.xhr
            /\ loadedImageList = w.list
            /\ rafQueue = w.raf
            /\ hist = w.hist
    /\ probe = NoProbe

\* the page calls shell.load(actualSrc)
ShellLoadOld(actualSrc) ==
    /\ hist.shellLoads < MaxOldLoads
    /\ LET w1 == [World EXCEPT
                    !.shell.actualSrc = actualSrc,
                    !.shell.currentSrc = actualSrc,
                    !.shell.loaded = JsBool(ld["shell"].status = "success"
                                            /\ ~options.force),
                    !.hist.shellLoads = @ + 1,
                    !.hist.loadImage = hist.images + 1,
                    !.hist.actualOk = FALSE,
                    !.hist.last = "load"]
       IN Commit(ImageLoaderLoad(w1, "shell", actualSrc, "shell.load"))

ImageLoadOld(r) ==
    /\ r \in inflight
    /\ \E w0 \in {ImageSettles([World EXCEPT !.inflight = @ \ {r}], r, "complete")} :
       \E w1 \in {Observed(w0, r, "success")} :
       \E w2 \in {LoadListener(w1, r.ld)} :
          Commit(successHandlerOld(w2, r.id))

ImageErrorOld(r) ==
    /\ r \in inflight
    /\ Len(hist.failed) < MaxFails
    /\ \E w0 \in {ImageSettles([World EXCEPT !.inflight = @ \ {r}], r, "broken")} :
       \E w1 \in {Observed(w0, r, "fail")} :
       \E w2 \in {ErrorListener(w1, r.ld)} :
          Commit(failHandlerOld(w2))

LoadingTimeoutOld ==
    /\ shell.loadingTimeouter
    /\ LET w1 == [World EXCEPT !.shell.loadingTimeouter = FALSE,
                               !.hist.timerFired = TRUE,
                               !.hist.last = "timer"]
       IN Commit(createContainerDomOld(w1))

AnimationFrameOld ==
    /\ rafQueue # <<>>
    /\ LET w1 == [World EXCEPT !.raf = <<>>, !.hist.frame = @ + 1,
                               !.hist.last = "frame"]
       IN Commit(RunCallbacksOld(w1, rafQueue))

AnimationEndOld ==
    /\ el.animationRunning
    /\ LET w1 == [World EXCEPT !.el.animationRunning = FALSE,
                               !.hist.animEnds = @ + 1,
                               !.hist.last = "animationend"]
       IN Commit(IF el.animationEndBound THEN animationEndHandlerOld(w1) ELSE w1)

OldNext ==
    \/ \E a \in ActualSrcs : ShellLoadOld(a)
    \/ \E r \in inflight : ImageLoadOld(r)
    \/ \E r \in inflight : ImageErrorOld(r)
    \/ LoadingTimeoutOld
    \/ AnimationFrameOld
    \/ AnimationEndOld

OldSpec == OldInit /\ [][OldNext]_vars

\* ------------------------------------------------------------- properties
\* what the node shows: the src attribute of an IMG, else the background image
Shown(e) == IF e.nodeName = "IMG" THEN e.src ELSE e.backgroundImage

ClassOf(suffix) == OriginClassName \o <<options.animationClassName \o suffix>>

AnimationConfigured == options.animate /\ ~isEmpty(options.animationClassName)

WrapperConfigured == isEmpty(options.originSrc) /\ ~isEmpty(options.loadingPlaceholder)

\* C1 (as stated): after one shell.load whose image fails, exactly one fallback
\* load is issued in total, also when that fallback fails.
C1_ExactlyOneFallbackInTotal ==
    (hist.shellLoads = 1 /\ Len(hist.failed) >= 1) => Len(hist.fallbacks) = 1

\* C1 (amended): the shell issues one fallback loader.load per image failure it
\* handles; a failing fallback is followed by one more fallback load.
C1_OneFallbackPerFailure == Len(hist.fallbacks) = Len(hist.failed)

C1_Witness ==
    /\ hist.shellLoads = 1
    /\ Len(hist.failed) = 2
    /\ hist.fallbacks = <<options.placeholder, TRANSPARENT_PLACEHOLDER_IMAGE>>

\* C2: the fallback loaded after a failure is the placeholder, unless the source
\* that just failed is the placeholder, and then it is the transparent image.
C2_FallbackFollowsFailedSource ==
    \A i \in DOMAIN hist.failed \cap DOMAIN hist.fallbacks :
        hist.fallbacks[i] = IF hist.failed[i] = options.placeholder
                            THEN TRANSPARENT_PLACEHOLDER_IMAGE
                            ELSE options.placeholder

\* C3: when a loader event is handled before the loading-delay timer fires, the
\* timer is cancelled and no wrapper is ever created for the shell.
C3_ResolvedFirstNeverWraps ==
    (WrapperConfigured /\ hist.resolvedFirst)
        => (~shell.loadingTimeouter /\ ~shell.parentNode /\ ~shell.placeholderNode
            /\ hist.wrappers = 0 /\ ~hist.timerFired)

C3_Witness ==
    /\ WrapperConfigured
    /\ hist.resolvedFirst
    /\ hist.handled >= 2
    /\ hist.shellLoads = 2

\* C4: a wrapper that exists when the actual image loads and the enter animation
\* is started stays in the DOM (until the animation-end event).
C4_WrapperKeptForAnimation ==
    [][(shell.parentNode /\ hist'.last = "success" /\ Len(rafQueue') > Len(rafQueue))
          => shell'.parentNode]_vars

\* C5: every animation-end event that follows a started enter animation applies
\* <name>-enter-end to the node and clears the animating flag.
C5_AnimationEndSettles ==
    [][(hist'.animEnds = hist.animEnds + 1)
          => (shell'.animationing = "false" /\ el'.class = ClassOf("-enter-end"))]_vars

\* C6: <name>-enter-active is applied only in the animation frame that follows
\* the frame in which <name>-enter was applied for the same load.
C6_EnterThenActive ==
    \A i \in DOMAIN hist.classLog :
        hist.classLog[i].cls = "active" =>
            \E j \in 1..(i - 1) :
                /\ hist.classLog[j].cls = "enter"
                /\ hist.classLog[j].id = hist.classLog[i].id
                /\ hist.classLog[i].frame = hist.classLog[j].frame + 1

C6_Witness ==
    /\ Len(hist.classLog) = 4
    /\ hist.classLog[4].cls = "active"
    /\ hist.classLog[4].id # hist.classLog[2].id
    /\ el.class = ClassOf("-enter-active")

C8_AnimationOnlyOnActualSrc ==
    [][(hist'.last = "frame" /\ hist'.frame = hist.frame + 1)
          => hist'.paintedBy # "fallback"]_vars

C10_SecondLoadIsLoaded ==
    (hist.last = "success" /\ hist.lastReq.again
     /\ ld[hist.lastReq.ld].image = hist.lastReq.id)
        => ld[hist.lastReq.ld].loaded = "true"

C10_Witness ==
    /\ hist.last = "success"
    /\ hist.lastReq.again
    /\ hist.lastReq.ld = "x"
    /\ ld["x"].image = hist.lastReq.id
    /\ ld["x"].loaded = "true"
    /\ ld["y"].currentSrc # "undefined"

\* the step is the delivery of the load event of the request hist'.lastReq
SuccessStep == hist'.last = "success" /\ hist'.lastReq \in inflight

\* the step is the delivery of the error event of the request hist'.lastReq
FailStep == hist'.last = "fail" /\ hist'.lastReq \in inflight

InList(src, list) == \E i \in DOMAIN list : list[i] = src

\* every source in the shared list is one whose image has loaded
ListHoldsOnlyLoaded ==
    \A i \in DOMAIN loadedImageList : loadedImageList[i] \in hist.okSrcs

\* C11 (as stated): on a loader with a prior successful load, a successful
\* load of a source different from the previously loaded one leaves
\* loaded = false, whatever was loaded before on any loader (checked here
\* for the loader's most recent call, and while the shared list holds only
\* sources that did load).
C11_NewSourceIsNotLoaded ==
    [][(/\ SuccessStep
        /\ ListHoldsOnlyLoaded
        /\ hist.okBy[hist'.lastReq.ld] # ""
        /\ hist.okBy[hist'.lastReq.ld] # hist'.lastReq.src
        /\ ld[hist'.lastReq.ld].image = hist'.lastReq.id)
          => ld'[hist'.lastReq.ld].loaded = "false"]_vars

\* C11 (amended): after a successful load, loaded is false exactly when the
\* loader's current source was not yet in the shared list of seen sources;
\* a source in the list yields loaded = true also on a loader that loaded a
\* different source before.
C11_LoadedIffInSharedList ==
    [][SuccessStep
          => ld'[hist'.lastReq.ld].loaded =
                 JsBool(InList(ld[hist'.lastReq.ld].currentSrc, loadedImageList))]_vars

C11_Witness ==
    /\ hist.last = "success"
    /\ hist.lastReq.ld = "x" /\ hist.lastReq.id = 3 /\ hist.lastReq.src = "A"
    /\ ld["x"].image = 3
    /\ ld["x"].loaded = "true"
    /\ ld["y"].image = 1 /\ ld["y"].currentSrc = "A"
    /\ hist.failed = <<>>
    /\ loadedImageList = <<"A", "B">>

\* C12: every source in the shared seen-sources list is one whose image load
\* completed successfully; a source that is still pending or has only failed
\* is never in the list, also when load calls on one loader overlap.
C12_OnlyLoadedSourcesListed ==
    /\ ListHoldsOnlyLoaded
    /\ \A r \in inflight : InList(r.src, loadedImageList) => r.src \in hist.okSrcs

\* promises returned by shell.load that are not settled yet
PendingLoads == {q \in inflight : q.by = "shell.load"}

\* C13: the promise of shell.load(actualSrc) resolves when the image of
\* actualSrc loads and rejects when it fails; a rejection marks the shell
\* not-loaded and reaches the caller although a fallback load is started;
\* events of fallback images settle no promise of shell.load.
C13_LoadSettlesWithItsImage ==
    [][/\ (SuccessStep /\ hist'.lastReq.by = "shell.load")
            => /\ hist'.resolved = hist.resolved + 1
               /\ hist'.rejected = hist.rejected
       /\ (FailStep /\ hist'.lastReq.by = "shell.load")
            => /\ hist'.rejected = hist.rejected + 1
               /\ hist'.resolved = hist.resolved
               /\ shell'.loaded = "false"
               /\ hist'.images = hist.images + 1
               /\ \E q \in inflight' : q.id = hist'.images /\ q.by = "failHandler"
       /\ ((SuccessStep \/ FailStep) /\ hist'.lastReq.by # "shell.load")
            => /\ hist'.resolved = hist.resolved
               /\ hist'.rejected = hist.rejected
       /\ hist'.resolved + hist'.rejected + Cardinality(PendingLoads')
              = hist'.shellLoads]_vars

C13_Witness ==
    /\ hist.last = "fail"
    /\ hist.lastReq.by = "shell.load"
    /\ hist.resolved = 1 /\ hist.rejected = 1
    /\ hist.animEnds >= 1
    /\ shell.loaded = "false"
    /\ \E q \in inflight : q.by = "failHandler" /\ q.src = options.placeholder

\* C14: after a single shell.load whose image failed, with the placeholder
\* load pending, eventually either the placeholder fails too or the node shows
\* the placeholder from then on; after the placeholder failed too, eventually
\* either the transparent image fails or the node shows it from then on.
C14_FallbackIsShown ==
    /\ (hist.shellLoads = 1 /\ Len(hist.failed) = 1
         /\ hist.fallbacks = <<options.placeholder>>)
          ~> (Len(hist.failed) >= 2 \/ [](Shown(el) = options.placeholder))
    /\ (hist.shellLoads = 1 /\ Len(hist.failed) = 2
         /\ hist.fallbacks = <<options.placeholder, TRANSPARENT_PLACEHOLDER_IMAGE>>)
          ~> (Len(hist.failed) >= 3
              \/ [](Shown(el) = TRANSPARENT_PLACEHOLDER_IMAGE))

C14_Witness ==
    /\ hist.shellLoads = 1
    /\ options.placeholder = "P"
    /\ hist.failed = <<"A", "P">>
    /\ hist.last = "success"
    /\ inflight = {}
    /\ Shown(el) = TRANSPARENT_PLACEHOLDER_IMAGE

\* C15: the failure handling terminates: after one shell.load the shell never
\* issues the same fallback load twice.  (The fallback is a function of the
\* shell's currentSrc and the placeholder alone, so a fallback that comes back
\* while images keep failing comes back forever.)
C15_NoFallbackIsRetried ==
    hist.shellLoads = 1
        => \A i, j \in DOMAIN hist.fallbacks :
               i < j => hist.fallbacks[i] # hist.fallbacks[j]

\* C16: whenever the loader has reported a failure, the failure handler leaves
\* the wrapper timer cancelled and no wrapper in the DOM (parentNode and
\* placeholderNode cleared).
C16_FailureTearsDownWrapper ==
    hist.last = "fail"
        => /\ ~shell.loadingTimeouter
           /\ ~shell.parentNode
           /\ ~shell.placeholderNode
           /\ el.wrapped = 0

C16_Witness ==
    /\ hist.last = "fail"
    /\ hist.handled = 1
    /\ hist.timerFired
    /\ hist.wrappers = 1
    /\ el.wrapped = 0
    /\ ~shell.parentNode

\* C17: a shell has at most one wrapper container in the document at any time
\* (a wrapper is never created while another one exists), and the shell's
\* references point at a wrapper exactly while there is one.
C17_AtMostOneWrapper ==
    /\ el.wrapped <= 1
    /\ (el.wrapped = 1) <=> (shell.parentNode /\ shell.placeholderNode)

C17_Witness ==
    /\ el.wrapped = 1
    /\ shell.parentNode
    /\ hist.timerFired
    /\ hist.shellLoads = 2
    /\ Cardinality(inflight) = 2

\* C18: a wrapper or a wrapper timer exists only for a shell constructed with
\* an empty originSrc and a non-empty loadingPlaceholder; any other shell
\* never gets one, whatever loads follow.
C18_WrapperOnlyWhenConfigured ==
    ~WrapperConfigured
        => /\ ~shell.loadingTimeouter
           /\ ~hist.timerFired
           /\ hist.wrappers = 0
           /\ el.wrapped = 0
           /\ ~shell.parentNode /\ ~shell.placeholderNode

C18_Witness ==
    /\ options.originSrc = "O"
    /\ options.loadingPlaceholder = "L"
    /\ hist.shellLoads = 2
    /\ hist.handled >= 2
    /\ Len(hist.failed) >= 1
    /\ hist.wrappers = 0
    /\ ~shell.loadingTimeouter

\* C19: actualSrc changes only in a step that is a call of shell.load: image
\* events (success and failure handling, fallback loads), the wrapper timer,
\* animation frames and the animation-end handler leave it unchanged.
C19_ActualSrcOnlyByLoad ==
    [][shell'.actualSrc # shell.actualSrc
          => /\ hist'.last = "load"
             /\ hist'.shellLoads = hist.shellLoads + 1]_vars

C19_Witness ==
    /\ hist.last = "success"
    /\ hist.lastReq.by = "failHandler"
    /\ shell.actualSrc = "A"
    /\ shell.currentSrc = "P"
    /\ Shown(el) = "P"
    /\ hist.timerFired
    /\ hist.animEnds >= 1

\* C20: a loader's currentSrc is the src of the most recent load call on it in
\* every state, also when calls overlap and whatever order their images
\* complete in.
C20_CurrentSrcIsLatestCall ==
    \A l \in Loaders : ld[l].currentSrc = hist.lastCall[l]

C20_Witness ==
    /\ hist.last = "success"
    /\ hist.lastReq.ld = "x"
    /\ hist.lastReq.id < ld["x"].image
    /\ hist.lastReq.src # ld["x"].currentSrc
    /\ hist.latestOk["x"]
    /\ \A q \in inflight : q.ld # "x"
    /\ ld["x"].currentSrc = hist.lastCall["x"]

\* no image event, animation frame or animation end is pending
Quiescent == inflight = {} /\ rafQueue = <<>> /\ ~el.animationRunning

\* C21: the shell's $loaded readout is true when the actual image has loaded
\* successfully (every shell.load so far resolved and nothing is pending),
\* whether or not an enter animation is enabled or configured.
C21_LoadedAfterActualLoad ==
    (Quiescent /\ hist.shellLoads >= 1 /\ hist.resolved = hist.shellLoads)
        => shell.loaded = "true"

\* C25: every path that shows an image writes only the src attribute of an IMG
\* node and only the background image of any other node.
C25_OneWayToShow ==
    /\ el.nodeName = "IMG" => el.backgroundImage = ""
    /\ el.nodeName # "IMG" => el.src = options.originSrc

C25_Witness ==
    /\ el.nodeName = "DIV"
    /\ options.originSrc = "O"
    /\ hist.resolved >= 1
    /\ hist.paintedBy = "fallback"
    /\ el.backgroundImage = options.placeholder
    /\ el.src = "O"

\* C30: the source painted on the node is the built-in transparent image or a
\* source whose own image load has completed successfully, also when a load
\* is superseded by a later load before it completes.
C30_NodeShowsOnlyLoaded ==
    Shown(el) \in {TRANSPARENT_PLACEHOLDER_IMAGE} \cup hist.okSrcs

\* C28: creating the wrapper and tearing it down is a round trip: once the
\* wrapper is removed the node is a child of its original parent at its
\* original position among all children, text nodes included, and the wrapper
\* and the marker span are gone.
C28_WrapperRoundTrip ==
    (~shell.parentNode /\ ~shell.placeholderNode)
        => el.parentChildren = OriginChildren

\* a dot that a letter or digit follows
HasExtDot(str) ==
    \E i \in 1..(Len(str) - 1) : str[i] = "." /\ IsAlnum(str[i + 1])

\* C26 (as stated): for every source data:<mime>;base64,<payload>, getExtension
\* returns the subtype of <mime> in lower case, whatever the mime type is.
C26_SubtypeOfAnyMime ==
    (probe.done /\ probe.input.kind = "data")
        => probe.output = toLocaleLowerCase(probe.input.ext)

\* C26 (amended): getExtension returns the lower-cased subtype when <mime> is
\* image/<subtype> with a lower-case "image"; for any other mime type it
\* returns the whole <mime> in lower case.
C26_SubtypeOfImageMime ==
    (probe.done /\ probe.input.kind = "data")
        => probe.output =
              IF probe.input.head = <<"i", "m", "a", "g", "e">>
              THEN toLocaleLowerCase(probe.input.ext)
              ELSE toLocaleLowerCase(probe.input.head \o <<"/">> \o probe.input.ext)

C26_Witness ==
    /\ probe.done
    /\ probe.input.kind = "data"
    /\ probe.input.head = <<"i", "m", "a", "g", "e">>
    /\ probe.input.ext = <<"J", "p", "e", "g">>
    /\ probe.input.tail # <<>>
    /\ probe.output = <<"j", "p", "e", "g">>

\* C27 (as stated): for every source <path>.<ext> with an optional suffix that
\* starts with '!', getExtension returns <ext> in lower case.
C27_ExtBeforeAnySuffix ==
    (probe.done /\ probe.input.kind = "path")
        => probe.output = toLocaleLowerCase(probe.input.ext)

\* C27 (amended): getExtension returns <ext> in lower case when the suffix has
\* no dot that a letter or digit follows; when it has one, the result is the
\* lower-cased run of letters and digits after the last such dot of the suffix.
C27_ExtBeforeDotlessSuffix ==
    (probe.done /\ probe.input.kind = "path")
        => probe.output =
              IF HasExtDot(probe.input.tail)
              THEN toLocaleLowerCase(ReplaceExt(probe.input.tail))
              ELSE toLocaleLowerCase(probe.input.ext)

C27_Witness ==
    /\ probe.done
    /\ probe.input.kind = "path"
    /\ probe.input.head = <<"a", ".", "b", "/", "c">>
    /\ probe.input.ext = <<"J", "P", "G">>
    /\ probe.input.tail =
           <<"!", "b", "o", "t", "h", "/", "1", "0", "0", "x", "1", "0", "0">>
    /\ probe.output = <<"j", "p", "g">>

\* the source matches BASE64_REG
IsDataSrc(src) == src # "undefined" /\ MatchBase64(SrcText(src)).matched

\* C22 (as stated): base64() on a loader whose current source is a
\* data:...;base64, URI resolves with exactly that URI, without a canvas draw.
C22_DataSrcIsReturned ==
    (hist.last = "base64" /\ IsDataSrc(ld[FetchLoader].currentSrc))
        => hist.b64 = [settled |-> "resolved",
                       value |-> ld[FetchLoader].currentSrc, drew |-> FALSE]

\* C22 (amended): a base64() call changes nothing on the loader; with a data
\* URI as current source it resolves with exactly that URI and without a
\* canvas draw provided the loader holds an image or a blob, and rejects when
\* it holds neither.
C22_DataSrcIsReturnedIfHeld ==
    [][(hist'.last = "base64" /\ IsDataSrc(ld[FetchLoader].currentSrc))
          => /\ ld' = ld /\ inflight' = inflight /\ xhrs' = xhrs
             /\ loadedImageList' = loadedImageList
             /\ hist'.b64.drew = FALSE
             /\ IF HasBlob(ld[FetchLoader]) \/ ld[FetchLoader].image # 0
                THEN /\ hist'.b64.settled = "resolved"
                     /\ hist'.b64.value = ld[FetchLoader].currentSrc
                ELSE hist'.b64.settled = "rejected"]_vars

C22_Witness ==
    /\ hist.last = "base64"
    /\ ld[FetchLoader].currentSrc = "D"
    /\ ld[FetchLoader].imageState = "complete"
    /\ ld[FetchLoader].blob = "blob:D"
    /\ hist.b64 = [settled |-> "resolved", value |-> "D", drew |-> FALSE]

\* C23: base64() rejects whenever the loader has no loaded image and no
\* fetched blob: before any call, and also while the only load is pending or
\* after it failed.
C23_RejectsWithoutResource ==
    (/\ hist.last = "base64"
     /\ ~HasBlob(ld[FetchLoader])
     /\ ld[FetchLoader].imageState # "complete")
        => hist.b64.settled = "rejected"

\* C24: when the XHR of a fetch ends with a status other than 200 or with a
\* transport error, the fetch rejects, load is not invoked, no event is
\* emitted and status, loaded and the shared list are unchanged.
C24_FailedXhrOnlyRejects ==
    [][hist'.last \in {"xhrstatus", "xhrerror"}
          => /\ hist'.settled.rejected = hist.settled.rejected + 1
             /\ hist'.settled.resolved = hist.settled.resolved
             /\ hist'.images = hist.images
             /\ inflight' = inflight
             /\ hist'.emits = hist.emits
             /\ ld'[FetchLoader].status = ld[FetchLoader].status
             /\ ld'[FetchLoader].loaded = ld[FetchLoader].loaded
             /\ loadedImageList' = loadedImageList]_vars

C24_Witness ==
    /\ hist.last = "xhrstatus"
    /\ hist.settled.rejected = 1
    /\ hist.lastCall[FetchLoader] = "B"
    /\ ld[FetchLoader].status = "success"
    /\ ld[FetchLoader].loaded = "false"
    /\ loadedImageList = <<"A">>
    /\ inflight = {}

\* C29: load(src) clears the blob exactly when src differs from the current
\* source at the call; the load that fetch delegates to, with no other call
\* since the fetch, keeps the blob just fetched, and when that fetch resolves
\* with no call in between the blob is the one fetched for src.
C29_BlobClearedOnNewSource ==
    [][/\ hist'.last = "load"
            => ld'[FetchLoader].blob =
                  IF hist'.lastCall[FetchLoader] = ld[FetchLoader].currentSrc
                  THEN ld[FetchLoader].blob
                  ELSE "null"
       /\ (hist'.last \in {"fetch", "xhr200"} /\ hist'.images \in hist'.direct
            /\ hist'.images # hist.images)
            => ld'[FetchLoader].blob = "blob:" \o ld'[FetchLoader].currentSrc
       /\ (SuccessStep /\ hist'.lastReq.by = "fetch"
            /\ hist'.lastReq.id \in hist.direct
            /\ hist'.lastReq.entry = Entries(hist))
            => /\ ld'[FetchLoader].blob = "blob:" \o hist'.lastReq.src
               /\ ld'[FetchLoader].currentSrc = hist'.lastReq.src
               /\ hist'.settled.resolved = hist.settled.resolved + 1]_vars

C29_Witness ==
    /\ hist.last = "success"
    /\ hist.lastReq.by = "fetch"
    /\ hist.lastReq.src = "A"
    /\ hist.lastReq.id \in hist.direct
    /\ hist.okSrcs = {"A", "B"}
    /\ hist.calls = 2
    /\ ld[FetchLoader].blob = "blob:A"

\* C31: once every pending image event has been delivered, if the image of the
\* latest shell.load call loaded successfully, the node shows the source that
\* call asked for, whatever the superseded loads did.
C31_LatestLoadWins ==
    (inflight = {} /\ hist.actualOk) => Shown(el) = shell.actualSrc

\* a loader that has been used and has no image request in flight
Settled(l) == ld[l].image # 0 /\ ~\E q \in inflight : q.ld = l

\* C32: whenever a used loader has no image request in flight, its status
\* describes its current source: 'success' only if a load of currentSrc
\* succeeded, 'fail' only if a load of currentSrc failed.
C32_StatusDescribesCurrentSrc ==
    \A l \in PageLoaders :
        Settled(l) =>
            /\ ld[l].status \in {"success", "fail"}
            /\ ld[l].status = "success" => ld[l].currentSrc \in hist.okSrcs
            /\ ld[l].status = "fail" => InList(ld[l].currentSrc, hist.failed)

\* C33: if the wrapper exists, the animating flag is not set and the shell has
\* handled no loader event yet; once it has handled one, there is neither a
\* wrapper nor a pending wrapper timer.
C33_WrapperOnlyBeforeFirstEvent ==
    /\ (el.wrapped > 0 \/ Contains(el.parentChildren, "container"))
          => (shell.animationing # "true" /\ hist.handled = 0)
    /\ hist.handled > 0 => (~shell.loadingTimeouter /\ el.wrapped = 0)

\* the wrapper was created and the first loader event has taken it away, with
\* the enter animation running
C33_Witness ==
    /\ hist.timerFired
    /\ hist.wrappers = 1
    /\ hist.handled > 0
    /\ shell.animationing = "true"
    /\ el.wrapped = 0
    /\ ~Contains(el.parentChildren, "container")

\* the three class values the shell can write
PhaseClasses == {ClassOf("-enter"), ClassOf("-enter-active"), ClassOf("-enter-end")}

\* C34: once the shell has written the class attribute, its value is the
\* original class list followed by exactly one phase class; until then it is
\* the original class list.
C34_OriginPlusOnePhase ==
    /\ (hist.classLog # <<>> \/ el.class # OriginClassName) => el.class \in PhaseClasses
    /\ SubSeq(el.class, 1, Len(OriginClassName)) = OriginClassName

\* a second animation has replaced the end class of the first one
C34_Witness ==
    /\ Len(hist.classLog) >= 3
    /\ hist.animEnds >= 1
    /\ hist.classLog[1].id # hist.classLog[3].id
    /\ el.class = ClassOf("-enter-active")

\* C35: with animate off or without an animation class name, the shell leaves
\* the class attribute as it found it, never sets the animating flag and binds
\* no animation-end handler.
C35_NoAnimationWithoutConfiguration ==
    ~AnimationConfigured =>
        /\ el.class = OriginClassName
        /\ hist.classLog = <<>>
        /\ shell.animationing = "undefined"
        /\ ~el.animationEndBound
        /\ rafQueue = <<>>

\* an actual source has loaded and its promise resolved while nothing but the
\* configuration stood against the animation
C35_Witness ==
    /\ ~AnimationConfigured
    /\ hist.last = "success"
    /\ hist.lastReq.by = "shell.load"
    /\ hist.resolved >= 1
    /\ shell.currentSrc = shell.actualSrc
    /\ shell.canAnimate # "true"

\* C36: whenever the loader has no request in flight and holds a blob, the blob
\* is the one fetched or decoded for its current source.
C36_BlobDescribesCurrentSrc ==
    (inflight = {} /\ xhrs = {} /\ HasBlob(ld[FetchLoader]))
        => ld[FetchLoader].blob = "blob:" \o ld[FetchLoader].currentSrc

\* C37: the shared list of seen sources holds no source twice.
C37_ListHasNoDuplicates ==
    \A i, j \in DOMAIN loadedImageList :
        i # j => loadedImageList[i] # loadedImageList[j]

\* a source already in the list has loaded once more, on a loader that reports
\* it as seen, while another load of the same source is still pending
C37_Witness ==
    /\ hist.last = "success"
    /\ ld[hist.lastReq.ld].loaded = "true"
    /\ ld[hist.lastReq.ld].currentSrc = hist.lastReq.src
    /\ InList(hist.lastReq.src, loadedImageList)
    /\ Len(loadedImageList) = 2
    /\ \E q \in inflight : q.src = hist.lastReq.src

\* the earlier variant handles the error event of an image
OldFailStep == hist'.last = "fail" /\ hist'.lastReq \in inflight

\* C38: in the earlier variant, when a wrapper exists and a load fails, the
\* failure handler tears the wrapper down, whatever the animation options are.
C38_OldFailureTearsDownWrapper ==
    [][(OldFailStep /\ Contains(el.parentChildren, "container"))
          => ~Contains(el'.parentChildren, "container")]_vars

====
